---- MODULE Spec2Model ----
(***************************************************************************)
(* The background animation and the contact form of script.js.            *)
(*                                                                         *)
(* Numbers.  The script computes in IEEE doubles.  Here every length,     *)
(* velocity, angle and scroll position is a whole number of 1/Scale px    *)
(* (or radians), and every product or quotient is rounded to the nearest  *)
(* unit, ties away from zero: the arithmetic of a double close to zero,   *)
(* where doubles are evenly spaced, at a coarser spacing.  Decimal        *)
(* literals of the script (0.98, 0.02, ...) are kept as exact fractions   *)
(* <<numerator, denominator>>.                                             *)
(*                                                                         *)
(* Math.random.  The generator is a deterministic stream with hidden      *)
(* state (rng, the seed plus the number of calls made), seeded            *)
(* arbitrarily at page load.                                               *)
(*                                                                         *)
(* Scheduling.  JavaScript runs each callback to completion, so every     *)
(* listener and every animation frame is one atomic action.  What a frame *)
(* did internally (the order of its calls, what every update() read and   *)
(* computed) is recorded in the history variable `frame`.                  *)
(***************************************************************************)
EXTENDS Integers, Sequences, FiniteSets, TLC

VARIABLES
    width, height,      \* let width, height (px)
    particles,          \* let particles = []
    mouse,              \* let mouse = { x, y }; <<>> is null, <<v>> a number
    scrollY,            \* let scrollY
    lastScrollY,        \* let lastScrollY
    scrollSpeed,        \* let scrollSpeed
    rng,                \* hidden state of Math.random
    pending,            \* animation callbacks requested and not yet run
    booted,             \* line 197 has run
    canvas,             \* fills on the 2D surface since the last clearRect
    form,               \* the DOM: the contact form and its four fields
    mail,               \* values assigned to window.location.href
    submits,            \* per submit event: was the default prevented, did it throw
    created,            \* history: number of Particle objects constructed so far
    frame,              \* history: what the last run of animate() did
    scrollHist,         \* history: window.scrollY at load and at every scroll event
    scrollsSince,       \* history: scroll events since the last run of animate()
    pointerEvt,         \* history: last pointer event, "none" | "move" | "out"
    lastOp,             \* history: the last action taken
    frames, events      \* history: counters that bound the exploration

vars == <<width, height, particles, mouse, scrollY, lastScrollY, scrollSpeed,
          rng, pending, booted, canvas, form, mail, submits, created, frame,
          scrollHist, scrollsSince, pointerEvt, lastOp, frames, events>>

----------------------------------------------------------------------------
(* Bounds of the exploration *)

Scale == 1000        \* units per pixel (and per radian)
RandRes == 1000      \* Math.random() takes the values 0/RandRes .. (RandRes-1)/RandRes
HypMax == 30000      \* operands of the distance computation are scaled into -HypMax..HypMax
MaxFrames == 2       \* animation callbacks run after the first, direct, animate()
MaxEvents == 2       \* listener invocations

Seeds == {1, 7919}
Sizes == {<<300, 200>>, <<800, 600>>}            \* window.innerWidth, innerHeight
MousePts == {<<150, 100>>, <<790, 590>>}         \* e.clientX, e.clientY
ScrollPositions == {0, 4, 20000 * Scale}         \* window.scrollY, in units

----------------------------------------------------------------------------
(* Arithmetic *)

Abs(a) == IF a < 0 THEN -a ELSE a

Max(a, b) == IF a >= b THEN a ELSE b

\* a / b for b > 0, rounded to the nearest integer, ties away from zero
RoundDiv(a, b) ==
    IF a >= 0 THEN (a + b \div 2) \div b ELSE -((-a + b \div 2) \div b)

\* a * q for a fraction q = <<numerator, denominator>>
Mul(a, q) == RoundDiv(a * q[1], q[2])

\* F(v), with v evaluated once, before F is applied
Bind(v, F(_)) == CHOOSE y \in {F(x) : x \in {v}} : TRUE

RECURSIVE SqrtIn(_, _, _)
\* the largest m in lo..hi with m * m <= n
SqrtIn(lo, hi, n) ==
    IF lo >= hi THEN lo
    ELSE Bind((lo + hi + 1) \div 2, LAMBDA mid :
             IF mid * mid <= n THEN SqrtIn(mid, hi, n) ELSE SqrtIn(lo, mid - 1, n))

\* Math.sqrt, rounded to the nearest integer
Sqrt(n) ==
    Bind(n, LAMBDA v :
        Bind(SqrtIn(0, 46340, v), LAMBDA f : IF v - f * f > f THEN f + 1 ELSE f))

\* Math.PI
Pi == <<355, 113>>

----------------------------------------------------------------------------
(* Configuration *)

particleCount == 12
baseSize == 400
sizeSpread == 200
moveSpeed == <<8, 10>>
mouseRepelDist == 600
mouseRepelForce == <<2, 100>>
scrollForce == <<5, 100>>
damping == <<98, 100>>
minSpeed == <<2, 10>>
nudgeSpan == <<1, 10>>
spinSpan == <<5, 1000>>
scrollDecay == <<9, 10>>
offsetCount == 8

colors == << "rgba(255, 153, 51, 0.8)", "rgba(255, 180, 100, 0.7)",
             "rgba(240, 240, 255, 0.8)", "rgba(19, 136, 8, 0.8)",
             "rgba(50, 200, 80, 0.7)" >>

----------------------------------------------------------------------------
(* Math.random *)

\* the hidden state after k calls: the generator counts its calls
RandAt(r, k) == r + k

\* the value of the k-th call from state r, as a numerator over RandRes
Rand(r, k) ==
    LET n == RandAt(r, k) % 8191
    IN ((n * n * 29 + n * 7919 + 17) % 65521) % RandRes

\* Math.random() * n, for the k-th call
RandTimes(r, k, n) == RoundDiv(Rand(r, k) * n, RandRes)

\* (Math.random() - 0.5) * q, in units, for the k-th call
RandCentred(r, k, q) ==
    RoundDiv((2 * Rand(r, k) - RandRes) * q[1] * Scale, 2 * q[2] * RandRes)

----------------------------------------------------------------------------
(* Particle: constructor and reset() *)

\* this.reset() with the generator in state r, in a viewport of w by h px:
\* calls 1..16 of Math.random
Reset(r, w, h) ==
    [ x |-> RandTimes(r, 1, w * Scale),
      y |-> RandTimes(r, 2, h * Scale),
      vx |-> RandCentred(r, 3, moveSpeed),
      vy |-> RandCentred(r, 4, moveSpeed),
      targetSize |-> baseSize * Scale + RandTimes(r, 5, sizeSpread * Scale),
      radius |-> baseSize * Scale + RandTimes(r, 5, sizeSpread * Scale),
      color |-> colors[((Rand(r, 6) * Len(colors)) \div RandRes) + 1],
      angle |-> Mul(RandTimes(r, 7, 2 * Scale), Pi),
      spin |-> RandCentred(r, 8, spinSpan),
      offsets |-> [k \in 1..offsetCount |-> Mul(RandTimes(r, 8 + k, 2 * Scale), Pi)] ]

\* number of Math.random calls of one new Particle()
DrawsPerParticle == 8 + offsetCount + 2

\* new Particle(): reset(), then x and y drawn again; id is the object's identity
NewParticle(r, w, h, id) ==
    [ Reset(r, w, h) EXCEPT !.x = RandTimes(r, 8 + offsetCount + 1, w * Scale),
                            !.y = RandTimes(r, 8 + offsetCount + 2, h * Scale) ]
        @@ [id |-> id]

RECURSIVE PushParticles(_, _, _, _, _, _)
\* the loop of initParticles from index i on: particles.push(new Particle())
PushParticles(ps, i, r, w, h, nextId) ==
    IF i >= particleCount THEN ps
    ELSE PushParticles(Append(ps, NewParticle(r, w, h, nextId)), i + 1,
                       RandAt(r, DrawsPerParticle), w, h, nextId + 1)

\* mutant: initParticles() without `particles = []`
InitParticlesKeepsOld(old, r, w, h, nextId) ==
    PushParticles(old, 0, r, w, h, nextId)

\* initParticles(): the new value of particles, given the old one
InitParticles(old, r, w, h, nextId) == PushParticles(<<>>, 0, r, w, h, nextId)

----------------------------------------------------------------------------
(* Particle.update() *)

\* a nullable number used in arithmetic: null converts to 0
Num(v) == IF v = <<>> THEN 0 ELSE v[1]

\* mutant: the wrap without its second test
WrapLowOnly(c, dim, buffer) == IF c < -buffer THEN dim + buffer ELSE c

\* the wrap of one coordinate c on an axis of length dim (both tests, in order)
Wrap(c, dim, buffer) ==
    LET c1 == IF c < -buffer THEN dim + buffer ELSE c
    IN IF c1 > dim + buffer THEN -buffer ELSE c1

\* Math.sqrt(dx*dx + dy*dy) with Math.cos and Math.sin of Math.atan2(dy, dx).
\* The operands are first scaled into -HypMax..HypMax (as a double keeps a
\* normalised mantissa), so the direction keeps its precision at any distance.
\* d is in units, c and s are numerators over Scale.  atan2(0, 0) is 0.
Polar(dx, dy) ==
    LET m == Max(Abs(dx), Abs(dy))
    IN IF m = 0 THEN [d |-> 0, c |-> Scale, s |-> 0]
       ELSE LET q == (m + HypMax - 1) \div HypMax
                k == IF q = 1 THEN HypMax \div m ELSE 1
                nx == RoundDiv(dx * k, q)
                ny == RoundDiv(dy * k, q)
            IN Bind(Sqrt(nx * nx + ny * ny), LAMBDA n :
                   [d |-> RoundDiv(n * q, k),
                    c |-> RoundDiv(nx * Scale, n),
                    s |-> RoundDiv(ny * Scale, n)])

\* mutant: the repel step without the test distance < mouseRepelDist
RepelAtAnyDistance(dx, dy) ==
    Bind(Polar(dx, dy), LAMBDA pol :
        LET force == -RoundDiv((pol.d - mouseRepelDist * Scale) * Scale,
                               mouseRepelDist * Scale)
        IN [distance |-> pol.d, applied |-> TRUE, force |-> force,
            dvx |-> RoundDiv(pol.c * force * mouseRepelForce[1],
                             Scale * mouseRepelForce[2]),
            dvy |-> RoundDiv(pol.s * force * mouseRepelForce[1],
                             Scale * mouseRepelForce[2])])

\* mutant: the repel step with the push towards the pointer
RepelTowardsPointer(dx, dy) ==
    Bind(Polar(dx, dy), LAMBDA pol :
        LET force == RoundDiv((mouseRepelDist * Scale - pol.d) * Scale,
                              mouseRepelDist * Scale)
        IN IF pol.d < mouseRepelDist * Scale
           THEN [distance |-> pol.d, applied |-> TRUE, force |-> force,
                 dvx |-> -RoundDiv(pol.c * force * mouseRepelForce[1],
                                   Scale * mouseRepelForce[2]),
                 dvy |-> -RoundDiv(pol.s * force * mouseRepelForce[1],
                                   Scale * mouseRepelForce[2])]
           ELSE [distance |-> pol.d, applied |-> FALSE, force |-> 0,
                 dvx |-> 0, dvy |-> 0])

\* the repel step for a pointer at offset (dx, dy) from the particle: what is
\* subtracted from vx and vy (force is a numerator over Scale)
Repel(dx, dy) ==
    Bind(Polar(dx, dy), LAMBDA pol :
        LET force == RoundDiv((mouseRepelDist * Scale - pol.d) * Scale,
                              mouseRepelDist * Scale)
        IN IF pol.d < mouseRepelDist * Scale
           THEN [distance |-> pol.d, applied |-> TRUE, force |-> force,
                 dvx |-> RoundDiv(pol.c * force * mouseRepelForce[1],
                                  Scale * mouseRepelForce[2]),
                 dvy |-> RoundDiv(pol.s * force * mouseRepelForce[1],
                                  Scale * mouseRepelForce[2])]
           ELSE [distance |-> pol.d, applied |-> FALSE, force |-> 0,
                 dvx |-> 0, dvy |-> 0])

\* mutant: the mouse interaction without the test mouse.x != null
MouseStepUnchecked(m, x, y) ==
    Bind(<<Num(m.x) - x, Num(m.y) - y>>, LAMBDA d :
        Repel(d[1], d[2]) @@ [known |-> TRUE])

\* the mouse interaction of update() for a particle at (x, y)
MouseStep(m, x, y) ==
    IF m.x # <<>>
    THEN Bind(<<Num(m.x) - x, Num(m.y) - y>>, LAMBDA d :
             Repel(d[1], d[2]) @@ [known |-> TRUE])
    ELSE [known |-> FALSE, distance |-> 0, applied |-> FALSE, force |-> 0,
          dvx |-> 0, dvy |-> 0]

\* Math.abs(v) < 0.2
Slow(v) == Abs(v) * minSpeed[2] < minSpeed[1] * Scale

\* update() of particle p with the generator in state r and scrollSpeed s;
\* width, height and mouse are the globals it reads.  The result holds the
\* particle, the generator's state, and in log what the call read and did.
Update(p, r, s) ==
    LET vy1 == p.vy + Mul(s, scrollForce)
        x1 == p.x + p.vx
        y1 == p.y + vy1
        x2 == Wrap(x1, width * Scale, p.radius)
        y2 == Wrap(y1, height * Scale, p.radius)
    IN Bind(MouseStep(mouse, x2, y2), LAMBDA rep :
        LET vx3 == Mul(p.vx - rep.dvx, damping)
            vy3 == Mul(vy1 - rep.dvy, damping)
            nx == IF Slow(vx3) THEN 1 ELSE 0
            ny == IF Slow(vy3) THEN 1 ELSE 0
            jx == IF nx = 1 THEN RandCentred(r, 1, nudgeSpan) ELSE 0
            jy == IF ny = 1 THEN RandCentred(r, nx + 1, nudgeSpan) ELSE 0
        IN [ p |-> [p EXCEPT !.x = x2, !.y = y2, !.vx = vx3 + jx,
                             !.vy = vy3 + jy, !.angle = p.angle + p.spin],
             rng |-> RandAt(r, nx + ny),
             log |-> [pin |-> p, speed |-> s, moved |-> <<x1, y1>>,
                      rep |-> rep, damped |-> <<vx3, vy3>>,
                      nudge |-> <<jx, jy>>] ])

\* draw(): what the fill puts on the surface.  The outline (11 points of
\* radius * (1 + noise), noise from offsets and Date.now()) is not computed:
\* the fill is recorded by the fields draw() reads.
Draw(p) ==
    [x |-> p.x, y |-> p.y, angle |-> p.angle, radius |-> p.radius,
     offsets |-> p.offsets, color |-> p.color]

\* mutant: draw() stores the last outline radius in the particle
AfterDrawStoresRadius(p) == [p EXCEPT !.radius = @ + (@ \div 10)]

\* the particle as draw() leaves it
AfterDraw(p) == p

----------------------------------------------------------------------------
(* animate(), on the record st of what a frame changes *)

\* ctx.clearRect(0, 0, width, height)
ClearRect(st) ==
    [st EXCEPT !.canvas = <<>>,
               !.frame.ops = Append(@, <<"clearRect", 0>>)]

\* p.update() for the particle at index i
UpdateAt(st, i) ==
    Bind(Update(st.particles[i], st.rng, st.scrollSpeed), LAMBDA u :
        [st EXCEPT !.particles[i] = u.p, !.rng = u.rng,
                   !.frame.ops = Append(@, <<"update", i>>),
                   !.frame.upd = Append(@, u.log)])

\* p.draw() for the particle at index i
DrawAt(st, i) ==
    [st EXCEPT !.canvas = Append(@, Draw(st.particles[i])),
               !.particles[i] = AfterDraw(@),
               !.frame.ops = Append(@, <<"draw", i>>),
               !.frame.drw = Append(@, st.particles[i])]

RECURSIVE UpdateAll(_, _)
\* particles.forEach(p => p.update()), from index i on
UpdateAll(st, i) ==
    IF i > Len(st.particles) THEN st
    ELSE Bind(UpdateAt(st, i), LAMBDA s : UpdateAll(s, i + 1))

RECURSIVE DrawAll(_, _)
\* particles.forEach(p => p.draw()), from index i on
DrawAll(st, i) ==
    IF i > Len(st.particles) THEN st
    ELSE Bind(DrawAt(st, i), LAMBDA s : DrawAll(s, i + 1))

\* mutant: the frame without the decay of scrollSpeed
DecayOmitted(st) == [st EXCEPT !.frame.ops = Append(@, <<"decay", 0>>)]

\* scrollSpeed *= 0.9
Decay(st) ==
    [st EXCEPT !.scrollSpeed = Mul(@, scrollDecay),
               !.frame.ops = Append(@, <<"decay", 0>>)]

\* mutant: animate() without its requestAnimationFrame
RequestFrameOmitted(st) ==
    [st EXCEPT !.frame.ops = Append(@, <<"requestAnimationFrame", 0>>)]

\* requestAnimationFrame(animate)
RequestFrame(st) ==
    [st EXCEPT !.pending = @ + 1,
               !.frame.ops = Append(@, <<"requestAnimationFrame", 0>>)]

\* animate()
Animate(st) ==
    Bind(ClearRect(st), LAMBDA cleared :
        Bind(UpdateAll(cleared, 1), LAMBDA updated :
            RequestFrame(Decay(DrawAll(updated, 1)))))

----------------------------------------------------------------------------
(* Strings are sequences of one-character strings *)

RECURSIVE Flatten(_)
\* the concatenation of the strings of ss, by halves
Flatten(ss) ==
    Bind(ss, LAMBDA s :
        IF Len(s) = 0 THEN <<>>
        ELSE IF Len(s) = 1 THEN s[1]
        ELSE Flatten(SubSeq(s, 1, Len(s) \div 2))
                 \o Flatten(SubSeq(s, (Len(s) \div 2) + 1, Len(s))))

HexDigits == <<"0", "1", "2", "3", "4", "5", "6", "7", "8", "9",
               "A", "B", "C", "D", "E", "F">>

\* the characters encodeURIComponent leaves as they are
Unreserved ==
    { "A", "B", "C", "D", "E", "F", "G", "H", "I", "J", "K", "L", "M", "N", "O",
      "P", "Q", "R", "S", "T", "U", "V", "W", "X", "Y", "Z",
      "a", "b", "c", "d", "e", "f", "g", "h", "i", "j", "k", "l", "m", "n", "o",
      "p", "q", "r", "s", "t", "u", "v", "w", "x", "y", "z",
      "0", "1", "2", "3", "4", "5", "6", "7", "8", "9",
      "-", "_", ".", "!", "~", "*", "'", "(", ")" }

\* the code point of a character that is not Unreserved ("LF" is the line feed)
CodePoint(c) ==
    CASE c = "LF" -> 10  [] c = " " -> 32  [] c = "#" -> 35  [] c = "%" -> 37
      [] c = "&" -> 38   [] c = "+" -> 43  [] c = ":" -> 58  [] c = "=" -> 61
      [] c = "?" -> 63   [] c = "@" -> 64  [] c = "e-acute" -> 233

\* the UTF-8 bytes of a code point below 2048
Utf8(cp) ==
    IF cp < 128 THEN <<cp>> ELSE <<192 + (cp \div 64), 128 + (cp % 64)>>

\* %XX of one byte
PercentByte(b) == <<"%", HexDigits[(b \div 16) + 1], HexDigits[(b % 16) + 1]>>

\* mutant: no encoding
EncodeCharRaw(c) == <<c>>

\* encodeURIComponent of one character
EncodeChar(c) ==
    IF c \in Unreserved THEN <<c>>
    ELSE Flatten([k \in 1..Len(Utf8(CodePoint(c))) |->
                     PercentByte(Utf8(CodePoint(c))[k])])

\* encodeURIComponent throws a URIError on a surrogate without its pair
WellFormed(str) == \A i \in 1..Len(str) : str[i] # "lone-surrogate"

\* encodeURIComponent of a well-formed string
EncodeURIComponent(str) ==
    Bind(str, LAMBDA t : Flatten([k \in 1..Len(t) |-> EncodeChar(t[k])]))

----------------------------------------------------------------------------
(* The contact form *)

NameLabel == <<"N", "a", "m", "e", ":", " ">>
EmailLabel == <<"E", "m", "a", "i", "l", ":", " ">>
MailtoPrefix ==
    <<"m", "a", "i", "l", "t", "o", ":", "g", "o", "o", "d", "t", "e", "a", "c",
      "h", "t", "e", "c", "h", "@", "g", "m", "a", "i", "l", ".", "c", "o", "m">>
SubjectKey == <<"?", "s", "u", "b", "j", "e", "c", "t", "=">>
BodyKey == <<"&", "b", "o", "d", "y", "=">>

\* `Name: ${name}\nEmail: ${email}\n\n${message}`
BodyRaw(name, email, message) ==
    NameLabel \o name \o <<"LF">> \o EmailLabel \o email \o <<"LF", "LF">> \o message

\* the mailto link of the submit handler
MailtoLink(name, email, subject, message) ==
    MailtoPrefix \o SubjectKey \o EncodeURIComponent(subject)
        \o BodyKey \o EncodeURIComponent(BodyRaw(name, email, message))

\* document.getElementById(id).value throws when the element is absent
AllFieldsPresent(f) ==
    f.name.present /\ f.email.present /\ f.subject.present /\ f.message.present

\* the two calls of encodeURIComponent return
Encodable(f) ==
    /\ WellFormed(f.subject.value)
    /\ WellFormed(BodyRaw(f.name.value, f.email.value, f.message.value))

\* the submit handler: what it appends to mail and to submits
SubmitResult(f) ==
    IF AllFieldsPresent(f) /\ Encodable(f)
    THEN [mail |-> << MailtoLink(f.name.value, f.email.value, f.subject.value,
                                 f.message.value) >>,
          outcome |-> [prevented |-> TRUE, threw |-> FALSE]]
    ELSE [mail |-> <<>>, outcome |-> [prevented |-> TRUE, threw |-> TRUE]]

----------------------------------------------------------------------------
(* The state after line 196, resize(), and the actions *)

\* the history of a run of animate() at its start: ops, the calls made, in
\* order; upd, what each update() read and did; drw, each particle as its
\* draw() found it; startSpeed, scrollSpeed at the start; scrolls, the scroll
\* events since the run before
NewFrame(speed, scrolls) ==
    [ops |-> <<>>, upd |-> <<>>, drw |-> <<>>, startSpeed |-> speed,
     scrolls |-> scrolls]

Field(v) == [present |-> TRUE, value |-> v]
Absent == [present |-> FALSE, value |-> <<>>]

ExampleForm ==
    [exists |-> TRUE, name |-> Field(<<"A">>),
     email |-> Field(<<"a", "@", "b", ".", "c", "o", "m">>),
     subject |-> Field(<<"H", "i">>),
     message |-> Field(<<"H", "e", "l", "l", "o">>)]

\* everything but the DOM of the form
InitPage ==
    /\ \E sz \in Sizes : \E seed \in Seeds :
          /\ width = sz[1]
          /\ height = sz[2]
          /\ particles = InitParticles(<<>>, seed, sz[1], sz[2], 1)
          /\ rng = RandAt(seed, particleCount * DrawsPerParticle)
    /\ mouse = [x |-> <<>>, y |-> <<>>]
    /\ scrollY \in ScrollPositions
    /\ lastScrollY = scrollY
    /\ scrollSpeed = 0
    /\ pending = 0
    /\ booted = FALSE
    /\ canvas = <<>>
    /\ mail = <<>>
    /\ submits = <<>>
    /\ created = particleCount
    /\ frame = NewFrame(0, 0)
    /\ scrollHist = <<scrollY>>
    /\ scrollsSince = 0
    /\ pointerEvt = "none"
    /\ lastOp = "load"
    /\ frames = 0
    /\ events = 0

Init == InitPage /\ form = ExampleForm

\* the part of the state a run of animate() works on
FrameState(n) ==
    [particles |-> particles, scrollSpeed |-> scrollSpeed, rng |-> rng,
     canvas |-> canvas, pending |-> n,
     frame |-> NewFrame(scrollSpeed, scrollsSince)]

\* a run of animate() that starts with n callbacks still requested
RunAnimate(n) ==
    \E st \in {Animate(FrameState(n))} :
       /\ particles' = st.particles
       /\ scrollSpeed' = st.scrollSpeed
       /\ rng' = st.rng
       /\ canvas' = st.canvas
       /\ pending' = st.pending
       /\ frame' = st.frame
       /\ scrollsSince' = 0
       /\ UNCHANGED <<width, height, mouse, scrollY, lastScrollY, form, mail,
                      submits, created, scrollHist, pointerEvt, events>>

\* line 197: animate() called by the script itself
Boot ==
    /\ ~booted
    /\ booted' = TRUE
    /\ lastOp' = "boot"
    /\ UNCHANGED frames
    /\ RunAnimate(pending)

\* the browser runs a requested animation callback
Frame ==
    /\ booted
    /\ pending > 0
    /\ frames < MaxFrames
    /\ lastOp' = "frame"
    /\ frames' = frames + 1
    /\ UNCHANGED booted
    /\ RunAnimate(pending - 1)

\* a listener may run once the script has run, within the exploration bound
Listening == booted /\ events < MaxEvents

\* the mousemove listener
MouseMove ==
    /\ Listening
    /\ \E pt \in MousePts :
          mouse' = [x |-> <<pt[1] * Scale>>, y |-> <<pt[2] * Scale>>]
    /\ pointerEvt' = "move"
    /\ lastOp' = "mousemove"
    /\ events' = events + 1
    /\ UNCHANGED <<width, height, particles, scrollY, lastScrollY, scrollSpeed,
                   rng, pending, booted, canvas, form, mail, submits, created,
                   frame, scrollHist, scrollsSince, frames>>

\* the mouseout listener
MouseOut ==
    /\ Listening
    /\ mouse' = [x |-> <<>>, y |-> <<>>]
    /\ pointerEvt' = "out"
    /\ lastOp' = "mouseout"
    /\ events' = events + 1
    /\ UNCHANGED <<width, height, particles, scrollY, lastScrollY, scrollSpeed,
                   rng, pending, booted, canvas, form, mail, submits, created,
                   frame, scrollHist, scrollsSince, frames>>

\* resize(); setting canvas.width and canvas.height clears the surface
Resize ==
    /\ Listening
    /\ \E sz \in Sizes :
          /\ width' = sz[1]
          /\ height' = sz[2]
          /\ particles' = InitParticles(particles, rng, sz[1], sz[2], created + 1)
    /\ rng' = RandAt(rng, particleCount * DrawsPerParticle)
    /\ created' = created + particleCount
    /\ canvas' = <<>>
    /\ lastOp' = "resize"
    /\ events' = events + 1
    /\ UNCHANGED <<mouse, scrollY, lastScrollY, scrollSpeed, pending, booted,
                   form, mail, submits, frame, scrollHist, scrollsSince,
                   pointerEvt, frames>>

\* mutant: the scroll listener adds the delta to scrollSpeed
ScrollDeltaAccumulated(speed, last, pos) == speed + (pos - last)

\* the new scrollSpeed of the scroll listener, window.scrollY being pos
ScrollDelta(speed, last, pos) == pos - last

\* the scroll listener
Scroll ==
    /\ Listening
    /\ \E pos \in ScrollPositions :
          /\ scrollY' = pos
          /\ scrollSpeed' = ScrollDelta(scrollSpeed, lastScrollY, pos)
          /\ lastScrollY' = pos
          /\ scrollHist' = Append(scrollHist, pos)
    /\ scrollsSince' = scrollsSince + 1
    /\ lastOp' = "scroll"
    /\ events' = events + 1
    /\ UNCHANGED <<width, height, particles, mouse, rng, pending, booted,
                   canvas, form, mail, submits, created, frame, pointerEvt,
                   frames>>

\* the form as a visitor may have filled it in
NameValues == {Absent, Field(<<>>), Field(<<"A">>)}
EmailValues == {Absent, Field(<<"a", "@", "b", ".", "c", "o", "m">>)}
SubjectValues ==
    {Absent, Field(<<>>), Field(<<"H", "i">>),
     Field(<<"a", "&", "b", "=", "c", "?">>),
     Field(<<"e-acute", "+", " ", "#", "%">>),
     Field(<<"a", "lone-surrogate">>)}
MessageValues ==
    {Absent, Field(<<>>), Field(<<"H", "e", "l", "l", "o">>),
     Field(<<"x", "LF", "y", ":", " ", "1">>),
     Field(<<"&", "b", "o", "d", "y", "=", "z">>),
     Field(<<"lone-surrogate", "b">>)}
FormInputs ==
    [exists : BOOLEAN, name : NameValues, email : EmailValues,
     subject : SubjectValues, message : MessageValues]

\* the submit listener, registered only if the form exists
Submit ==
    /\ Listening
    /\ form.exists
    /\ \E res \in {SubmitResult(form)} :
          /\ mail' = mail \o res.mail
          /\ submits' = Append(submits, res.outcome)
    /\ lastOp' = "submit"
    /\ events' = events + 1
    /\ UNCHANGED <<width, height, particles, mouse, scrollY, lastScrollY,
                   scrollSpeed, rng, pending, booted, canvas, form, created,
                   frame, scrollHist, scrollsSince, pointerEvt, frames>>

Next == Boot \/ Frame \/ MouseMove \/ MouseOut \/ Resize \/ Scroll \/ Submit

Spec == Init /\ [][Next]_vars

\* Frame can run: ENABLED <<Frame>>_vars, written out as Frame's guard
FrameDue == booted /\ pending > 0 /\ frames < MaxFrames

\* The browser runs the script to its end and runs every requested animation
\* callback (the page stays open and visible): weak fairness of Boot and of
\* Frame, the latter as WF_vars(Frame) is defined, with FrameDue for
\* ENABLED <<Frame>>_vars.
SpecLive ==
    /\ Init /\ [][Next]_vars
    /\ WF_vars(Boot)
    /\ ([]<>(~FrameDue) \/ []<><<Frame>>_vars)

\* The contact form alone, over the forms a visitor may submit
InitForm == InitPage /\ form \in FormInputs

NextForm == Boot \/ Submit

SpecForm == InitForm /\ [][NextForm]_vars

----------------------------------------------------------------------------
(* Properties *)

\* the state right after a run of animate()
FrameRan == lastOp \in {"boot", "frame"}

Indices == 1..Len(particles)

\* the velocity update() leaves when the repel step subtracts (dvx, dvy):
\* scroll acceleration, damping, then the minimum-speed nudge it logged
VelocityAfter(u, dvx, dvy) ==
    << Mul(u.pin.vx - dvx, damping) + u.nudge[1],
       Mul(u.pin.vy + Mul(u.speed, scrollForce) - dvy, damping) + u.nudge[2] >>

\* the pointer's offset from particle i, in units (null counts as 0)
PointerOffset(i) ==
    << Num(mouse.x) - particles[i].x, Num(mouse.y) - particles[i].y >>

\* the pointer is at least px pixels from particle i, judged on whole pixels
AtLeastPxAway(i, px) ==
    LET dx == Abs(PointerOffset(i)[1]) \div Scale
        dy == Abs(PointerOffset(i)[2]) \div Scale
    IN dx * dx + dy * dy >= px * px

(* C1: every particle of the field lies within [-radius, width + radius] by
   [-radius, height + radius] of the current viewport, in every state: after
   the start, after every frame and after every listener. *)
C1_ParticlesInBounds ==
    \A i \in Indices :
        /\ -particles[i].radius <= particles[i].x
        /\ particles[i].x <= width * Scale + particles[i].radius
        /\ -particles[i].radius <= particles[i].y
        /\ particles[i].y <= height * Scale + particles[i].radius

\* a frame in which a particle passed height + radius and was reset to -radius
C1_Witness ==
    /\ lastOp = "frame"
    /\ \E i \in Indices :
          /\ frame.upd[i].moved[2] > height * Scale + particles[i].radius
          /\ particles[i].y = -particles[i].radius

(* C2: the field always holds exactly particleCount particles, and they are
   the particleCount objects constructed last, in order: a resize replaces
   every particle and nothing else adds or removes one. *)
C2_FieldIsTwelveFresh ==
    /\ Len(particles) = particleCount
    /\ \A i \in Indices : particles[i].id = created - particleCount + i

\* a frame has run on a field made by a resize event
C2_Witness ==
    /\ lastOp = "frame"
    /\ created = 2 * particleCount
    /\ Len(particles) = particleCount

(* C3, as stated: after a frame scrollSpeed is 0.9 times what it was before
   the frame, and its magnitude is strictly smaller. *)
C3_Original ==
    FrameRan =>
        /\ scrollSpeed = Mul(frame.startSpeed, scrollDecay)
        /\ Abs(scrollSpeed) < Abs(frame.startSpeed)

(* C3, amended: after a frame scrollSpeed is 0.9 times what it was before the
   frame, rounded to the nearest representable value; its magnitude never
   grows, it strictly shrinks when it was more than 5 units in the last
   place, and a scrollSpeed of 0 stays 0. *)
C3_DecayRounded ==
    FrameRan =>
        /\ 2 * Abs(10 * scrollSpeed - 9 * frame.startSpeed) <= 10
        /\ Abs(scrollSpeed) <= Abs(frame.startSpeed)
        /\ Abs(frame.startSpeed) > 5 => Abs(scrollSpeed) < Abs(frame.startSpeed)
        /\ frame.startSpeed = 0 => scrollSpeed = 0

\* a frame that started with a scrollSpeed that a scroll event had set
C3_Witness ==
    /\ lastOp = "frame"
    /\ Abs(frame.startSpeed) > 5
    /\ Abs(scrollSpeed) < Abs(frame.startSpeed)

(* C4: in update(), when the pointer is known and its distance from the
   particle is at least 600 (as update() computes it, or by 601 whole pixels
   or more), nothing is subtracted from vx or vy: the velocity left is the
   one scroll acceleration, damping and the nudge give. *)
C4_NoRepelBeyondRadius ==
    FrameRan =>
        \A i \in Indices :
            LET u == frame.upd[i]
            IN (/\ u.rep.known
                /\ \/ u.rep.distance >= mouseRepelDist * Scale
                   \/ AtLeastPxAway(i, mouseRepelDist + 1))
               => /\ ~u.rep.applied
                  /\ u.rep.dvx = 0
                  /\ u.rep.dvy = 0
                  /\ <<particles[i].vx, particles[i].vy>> = VelocityAfter(u, 0, 0)

\* a particle updated with the pointer known and 600 or more away
C4_Witness ==
    /\ lastOp = "frame"
    /\ \E i \in Indices :
          /\ frame.upd[i].rep.known
          /\ frame.upd[i].rep.distance >= mouseRepelDist * Scale
          /\ AtLeastPxAway(i, mouseRepelDist + 1)

(* C5: in update(), when the pointer's distance d is below 600, the force
   factor is (600 - d) / 600 and lies in [0, 1]; what is subtracted from the
   velocity has magnitude factor * 0.02 (within one unit, the rounding of its
   two components), so at most 0.02, and points from the particle to the
   pointer: the velocity changes away from the pointer. *)
C5_RepelForce ==
    FrameRan =>
        \A i \in Indices :
            LET u == frame.upd[i]
                f == u.rep.force
                m2 == u.rep.dvx * u.rep.dvx + u.rep.dvy * u.rep.dvy
                t100 == (100 * f * mouseRepelForce[1]) \div mouseRepelForce[2]
                        \* 100 times factor * 0.02, in units
            IN (u.rep.known /\ u.rep.distance < mouseRepelDist * Scale)
               => /\ u.rep.applied
                  /\ 0 <= f /\ f <= Scale
                  /\ 2 * Abs(f * mouseRepelDist
                             - (mouseRepelDist * Scale - u.rep.distance))
                        <= mouseRepelDist
                  /\ 10000 * m2 <= (t100 + 100) * (t100 + 100)
                  /\ t100 > 100 => 10000 * m2 >= (t100 - 100) * (t100 - 100)
                  /\ u.rep.dvx * PointerOffset(i)[1] >= 0
                  /\ u.rep.dvy * PointerOffset(i)[2] >= 0
                  /\ <<particles[i].vx, particles[i].vy>>
                        = VelocityAfter(u, u.rep.dvx, u.rep.dvy)

\* a particle updated within 600 of the pointer and pushed on both axes
C5_Witness ==
    /\ lastOp = "frame"
    /\ \E i \in Indices :
          /\ frame.upd[i].rep.known
          /\ frame.upd[i].rep.distance < mouseRepelDist * Scale
          /\ frame.upd[i].rep.dvx # 0
          /\ frame.upd[i].rep.dvy # 0

(* C6: mouse.x and mouse.y are null together; after a mouseout and until the
   next mousemove both are null, and no update() of a frame run in that time
   takes the repel step. *)
C6_NoRepelAfterMouseOut ==
    /\ (mouse.x = <<>>) <=> (mouse.y = <<>>)
    /\ pointerEvt = "out" => mouse.x = <<>>
    /\ (FrameRan /\ pointerEvt = "out") =>
          \A i \in Indices :
              /\ ~frame.upd[i].rep.known
              /\ ~frame.upd[i].rep.applied
              /\ <<particles[i].vx, particles[i].vy>>
                    = VelocityAfter(frame.upd[i], 0, 0)

\* a frame run after a mouseout that followed a mousemove
C6_Witness ==
    /\ lastOp = "frame"
    /\ pointerEvt = "out"
    /\ events >= 2
    /\ \A i \in Indices : ~frame.upd[i].rep.applied

\* the last scroll position recorded and the one before it
LastPos == scrollHist[Len(scrollHist)]
PrevPos == scrollHist[Len(scrollHist) - 1]

(* C7: a scroll event sets scrollSpeed to the current scroll position minus
   the position at the previous scroll event (or at load) and records the
   current position; a frame that follows one or more scroll events has every
   particle read that one value, the last event's delta. *)
C7_LastScrollWins ==
    /\ lastScrollY = LastPos
    /\ scrollY = LastPos
    /\ lastOp = "scroll" => scrollSpeed = LastPos - PrevPos
    /\ (FrameRan /\ frame.scrolls >= 1) =>
          /\ frame.startSpeed = LastPos - PrevPos
          /\ \A i \in Indices : frame.upd[i].speed = LastPos - PrevPos

\* a frame after two scroll events whose deltas differ and do not cancel
C7_Witness ==
    /\ lastOp = "frame"
    /\ frame.scrolls >= 2
    /\ Len(scrollHist) >= 3
    /\ scrollHist[Len(scrollHist) - 1] # scrollHist[Len(scrollHist) - 2]
    /\ LastPos # PrevPos
    /\ \A i \in Indices : frame.upd[i].speed = LastPos - PrevPos

\* the calls of one run of animate(), in order
FrameCalls ==
    << <<"clearRect", 0>> >>
        \o [i \in 1..particleCount |-> <<"update", i>>]
        \o [i \in 1..particleCount |-> <<"draw", i>>]
        \o << <<"decay", 0>>, <<"requestAnimationFrame", 0>> >>

(* C8: once the script has run there is exactly one requested animation
   callback at every point where a listener or a frame can start; only a run
   of animate() changes that number; each run updates every particle, then
   draws every particle, then decays scrollSpeed once, then requests one
   callback; and the script's own call and then every requested callback are
   eventually run (here: until MaxFrames callbacks have run). *)
C8_RenderLoop ==
    /\ [](pending = IF booted THEN 1 ELSE 0)
    /\ [](FrameRan => frame.ops = FrameCalls)
    /\ [][lastOp' \notin {"boot", "frame"} => pending' = pending]_vars
    /\ <>(booted /\ frames = MaxFrames)

\* the last frame of the exploration has run, after listeners ran
C8_Witness ==
    /\ lastOp = "frame"
    /\ frames = MaxFrames
    /\ events >= 1
    /\ pending = 1
    /\ frame.ops = FrameCalls

----------------------------------------------------------------------------
(* Reading a mailto link back, for C9 *)

\* the pieces of two adjacent stretches of a string, put together
Joined(l, r) ==
    SubSeq(l, 1, Len(l) - 1) \o << l[Len(l)] \o r[1] >> \o Tail(r)

RECURSIVE Split(_, _)
\* the pieces of t between occurrences of ch, by halves
Split(t, ch) ==
    Bind(t, LAMBDA s :
        IF Len(s) = 0 THEN << <<>> >>
        ELSE IF Len(s) = 1 THEN (IF s[1] = ch THEN << <<>>, <<>> >> ELSE <<s>>)
        ELSE Bind(Split(SubSeq(s, 1, Len(s) \div 2), ch), LAMBDA l :
                 Bind(Split(SubSeq(s, (Len(s) \div 2) + 1, Len(s)), ch),
                      LAMBDA r : Joined(l, r))))

\* the index of the first ch in t, or Len(t) + 1
First(t, ch) ==
    IF \E i \in 1..Len(t) : t[i] = ch
    THEN CHOOSE i \in 1..Len(t) : t[i] = ch /\ \A j \in 1..(i - 1) : t[j] # ch
    ELSE Len(t) + 1

Before(t, ch) == SubSeq(t, 1, First(t, ch) - 1)
After(t, ch) == SubSeq(t, First(t, ch) + 1, Len(t))

Reserved == {"LF", " ", "#", "%", "&", "+", ":", "=", "?", "@", "e-acute"}

HexVal(c) ==
    IF \E k \in 0..15 : HexDigits[k + 1] = c
    THEN CHOOSE k \in 0..15 : HexDigits[k + 1] = c
    ELSE 0

CharOf(cp) ==
    IF \E c \in Reserved : CodePoint(c) = cp
    THEN CHOOSE c \in Reserved : CodePoint(c) = cp
    ELSE "invalid"

ByteAt(t, i) ==
    IF i + 2 <= Len(t) /\ t[i] = "%"
    THEN HexVal(t[i + 1]) * 16 + HexVal(t[i + 2])
    ELSE 0

\* t[i] is a hex digit of an escape
InEscape(t, i) ==
    \/ i > 1 /\ t[i - 1] = "%"
    \/ i > 2 /\ t[i - 2] = "%"

\* what decodeURIComponent makes of t at index i: the character itself, the
\* character of the escape (of one byte, or of two with the byte after it)
\* that starts there, nothing inside an escape or at a continuation byte
DecodeAt(t, i) ==
    IF t[i] # "%" THEN (IF InEscape(t, i) THEN <<>> ELSE <<t[i]>>)
    ELSE Bind(ByteAt(t, i), LAMBDA b :
            IF b < 128 THEN <<CharOf(b)>>
            ELSE IF b < 192 THEN <<>>
            ELSE << CharOf((b - 192) * 64 + (ByteAt(t, i + 3) - 128)) >>)

DecodeURIComponent(str) ==
    Bind(str, LAMBDA t : Flatten([i \in 1..Len(t) |-> DecodeAt(t, i)]))

\* every character may stand in a URI query value
UriSafe(t) ==
    \A i \in 1..Len(t) : t[i] \in Unreserved \/ t[i] = "%"

Recipient ==
    <<"g", "o", "o", "d", "t", "e", "a", "c", "h", "t", "e", "c", "h", "@",
      "g", "m", "a", "i", "l", ".", "c", "o", "m">>

\* href is a compose request to Recipient whose query holds exactly the
\* parameters subject and body, which decode to subject and to the lines
\* "Name: <name>", "Email: <email>", "", and the lines of message
ComposeRequest(href, name, email, subject, message) ==
    LET query == After(href, "?")
        params == Split(query, "&")
    IN /\ Before(href, "?") = <<"m", "a", "i", "l", "t", "o", ":">> \o Recipient
       /\ Len(params) = 2
       /\ Before(params[1], "=") = <<"s", "u", "b", "j", "e", "c", "t">>
       /\ Before(params[2], "=") = <<"b", "o", "d", "y">>
       /\ UriSafe(After(params[1], "="))
       /\ UriSafe(After(params[2], "="))
       /\ DecodeURIComponent(After(params[1], "=")) = subject
       /\ Split(DecodeURIComponent(After(params[2], "=")), "LF")
             = <<NameLabel \o name, EmailLabel \o email, <<>> >>
                   \o Split(message, "LF")

\* a field's value, "" when the element is absent
ValueOrEmpty(f) == IF f.present THEN f.value ELSE <<>>

ExampleBody ==
    <<"N", "a", "m", "e", "%", "3", "A", "%", "2", "0", "A", "%", "0", "A",
      "E", "m", "a", "i", "l", "%", "3", "A", "%", "2", "0", "a", "%", "4",
      "0", "b", ".", "c", "o", "m", "%", "0", "A", "%", "0", "A",
      "H", "e", "l", "l", "o">>

(* C9, as stated: every submit prevents the default and produces one compose
   request, an absent field counting as the empty string. *)
C9_Original ==
    /\ Len(mail) = Len(submits)
    /\ \A k \in 1..Len(submits) :
          /\ submits[k].prevented
          /\ k <= Len(mail)
          /\ ComposeRequest(mail[k], ValueOrEmpty(form.name),
                            ValueOrEmpty(form.email), ValueOrEmpty(form.subject),
                            ValueOrEmpty(form.message))

\* the handler reads four values and both encodings return
Composable(f) == AllFieldsPresent(f) /\ Encodable(f)

(* C9, amended: every submit prevents the default.  With the four field
   elements present and their values well-formed strings it produces one
   compose request to the address, with the percent-encoded subject and body
   (a field left blank gives the empty string; the example form gives subject
   "Hi" and the body Name%3A%20A%0AEmail%3A%20a%40b.com%0A%0AHello).  With a
   field element absent, or a value holding a surrogate without its pair, the
   handler throws and produces no request. *)
C9_ComposeRequest ==
    /\ \A k \in 1..Len(submits) : submits[k].prevented
    /\ Composable(form) =>
          /\ Len(mail) = Len(submits)
          /\ \A k \in 1..Len(mail) :
                /\ ~submits[k].threw
                /\ ComposeRequest(mail[k], form.name.value, form.email.value,
                                  form.subject.value, form.message.value)
                /\ form = ExampleForm =>
                      mail[k] = MailtoPrefix \o SubjectKey \o <<"H", "i">>
                                    \o BodyKey \o ExampleBody
    /\ ~Composable(form) =>
          /\ mail = <<>>
          /\ \A k \in 1..Len(submits) : submits[k].threw

\* a submitted form whose subject and message need encoding
C9_Witness ==
    /\ lastOp = "submit"
    /\ Len(mail) >= 1
    /\ \E i \in 1..Len(form.subject.value) : form.subject.value[i] = "&"
    /\ \E i \in 1..Len(form.message.value) : form.message.value[i] = "LF"

\* the fields of a particle that update() does not assign
Fixed(p) ==
    [radius |-> p.radius, targetSize |-> p.targetSize, color |-> p.color,
     spin |-> p.spin, offsets |-> p.offsets, id |-> p.id]

(* C10: radius, color, the 8 offsets and spin (and targetSize) of a particle
   stay as created: only a resize, which replaces the particles, changes
   them in the field.  In a frame, update() leaves them as it found them and
   draw() leaves the whole particle as it found it. *)
C10_FixedAtCreation ==
    /\ [](\A i \in Indices : Len(particles[i].offsets) = offsetCount)
    /\ [](FrameRan =>
            \A i \in Indices :
                /\ Fixed(particles[i]) = Fixed(frame.upd[i].pin)
                /\ particles[i] = frame.drw[i])
    /\ [][lastOp' # "resize" =>
            \A i \in Indices : Fixed(particles'[i]) = Fixed(particles[i])]_vars

\* a frame that moved, accelerated and turned a particle
C10_Witness ==
    /\ lastOp = "frame"
    /\ events >= 1
    /\ \E i \in Indices :
          /\ particles[i].x # frame.upd[i].pin.x
          /\ particles[i].y # frame.upd[i].pin.y
          /\ particles[i].vx # frame.upd[i].pin.vx
          /\ particles[i].vy # frame.upd[i].pin.vy
          /\ particles[i].angle # frame.upd[i].pin.angle

====
